---- MODULE Spec2Model ----
(***************************************************************************)
(* Plugin discovery and load engine: PluginScanner (directory and archive  *)
(* scan with the extraction cache), readManifest / validateManifest, and   *)
(* PluginHost (reload, loadSinglePlugin, getAll, find).                    *)
(*                                                                         *)
(* Strings are sequences of one-character strings, JSON values are records *)
(* tagged with their JavaScript type, the filesystem is a map from entry   *)
(* names to nodes, and every await of the code is one step of a call.      *)
(***************************************************************************)
EXTENDS Integers, Sequences, FiniteSets, TLC

----------------------------------------------------------------------------
(* Bounds of the model *)

\* number of reload() invocations made on the host
MaxReloads == 2
\* number of changes made to the filesystem by its environment
MaxEdits == 1
\* number of times the millisecond clock advances
MaxClock == 1

----------------------------------------------------------------------------
(* Strings *)

RECURSIVE TrimStart(_)
TrimStart(s) ==
  IF s = <<>> THEN s
  ELSE IF Head(s) = " " THEN TrimStart(Tail(s)) ELSE s

RECURSIVE TrimEnd(_)
TrimEnd(s) ==
  IF s = <<>> THEN s
  ELSE IF s[Len(s)] = " " THEN TrimEnd(SubSeq(s, 1, Len(s) - 1)) ELSE s

\* String.prototype.trim
Trim(s) == TrimEnd(TrimStart(s))

\* String.prototype.endsWith
EndsWith(s, suffix) ==
  /\ Len(s) >= Len(suffix)
  /\ SubSeq(s, Len(s) - Len(suffix) + 1, Len(s)) = suffix

\* position of the first occurrence of pat in s, 0 when there is none
IndexOf(s, pat) ==
  LET hits == {i \in 1..(Len(s) - Len(pat) + 1) : SubSeq(s, i, i + Len(pat) - 1) = pat}
  IN IF hits = {} THEN 0 ELSE CHOOSE i \in hits : \A j \in hits : i <= j

\* String.prototype.replace with a string pattern: the first occurrence only
ReplaceFirst(s, pat, rep) ==
  LET i == IndexOf(s, pat)
  IN IF i = 0 THEN s
     ELSE SubSeq(s, 1, i - 1) \o rep \o SubSeq(s, i + Len(pat), Len(s))

DotZip == <<".", "z", "i", "p">>

----------------------------------------------------------------------------
(* JSON values, tagged with what JSON.parse produced *)

JUndef == [t |-> "undefined", s |-> <<>>]
JNull == [t |-> "null", s |-> <<>>]
JNum == [t |-> "number", s |-> <<>>]
JBool == [t |-> "boolean", s |-> <<>>]
JArr == [t |-> "array", s |-> <<>>]
JMap == [t |-> "object", s |-> <<>>]
JStr(s) == [t |-> "string", s |-> s]

\* a parsed JSON object with the four properties the validator reads
\* (JUndef for a property the object does not have)
JObj(name, version, entryPoint, meta) ==
  [t |-> "object", s |-> <<>>,
   f |-> [name |-> name, version |-> version, entryPoint |-> entryPoint, meta |-> meta]]

\* the typeof operator
TypeOf(j) ==
  CASE j.t \in {"null", "array", "object"} -> "object"
    [] OTHER -> j.t

\* property read data[p]
Prop(data, p) ==
  IF data.t = "object" /\ "f" \in DOMAIN data THEN data.f[p] ELSE JUndef

\* mutant: the string is not trimmed
NotNonEmptyString_NoTrim(v) == TypeOf(v) # "string" \/ v.s = <<>>

\* typeof v !== 'string' || v.trim() === ''
NotNonEmptyString(v) == TypeOf(v) # "string" \/ Trim(v.s) = <<>>

\* mutant: version is looked at before name
validateManifest_VersionFirst(data) ==
  IF TypeOf(data) # "object" \/ data.t = "null"
    THEN "Manifest must be a JSON object"
  ELSE IF NotNonEmptyString(Prop(data, "version"))
    THEN "Manifest must contain a non-empty \"version\" field"
  ELSE IF NotNonEmptyString(Prop(data, "name"))
    THEN "Manifest must contain a non-empty \"name\" field"
  ELSE IF NotNonEmptyString(Prop(data, "entryPoint"))
    THEN "Manifest must contain a non-empty \"entryPoint\" field"
  ELSE IF Prop(data, "meta").t # "undefined" /\ TypeOf(Prop(data, "meta")) # "object"
    THEN "Manifest \"meta\" field must be an object if provided"
  ELSE "ok"

\* validateManifest: "ok", or the message of the ManifestValidationError thrown
validateManifest(data) ==
  IF TypeOf(data) # "object" \/ data.t = "null"
    THEN "Manifest must be a JSON object"
  ELSE IF NotNonEmptyString(Prop(data, "name"))
    THEN "Manifest must contain a non-empty \"name\" field"
  ELSE IF NotNonEmptyString(Prop(data, "version"))
    THEN "Manifest must contain a non-empty \"version\" field"
  ELSE IF NotNonEmptyString(Prop(data, "entryPoint"))
    THEN "Manifest must contain a non-empty \"entryPoint\" field"
  ELSE IF Prop(data, "meta").t # "undefined" /\ TypeOf(Prop(data, "meta")) # "object"
    THEN "Manifest \"meta\" field must be an object if provided"
  ELSE "ok"

----------------------------------------------------------------------------
(* Filesystem *)

\* a file plugin.manifest.json: absent, present but unreadable, present with
\* text that JSON.parse rejects, or present with JSON text
NoFile == [st |-> "absent", json |-> JUndef]
MfNoPerm == [st |-> "noperm", json |-> JUndef]
MfGarbage == [st |-> "garbage", json |-> JUndef]
MfJson(j) == [st |-> "json", json |-> j]

\* a node of the filesystem: nothing, a directory (with its manifest file and
\* its index file), or a regular file (an archive holds a manifest entry and
\* an index entry at its root; corrupt when AdmZip cannot open it)
NoNode == [kind |-> "none", manifest |-> NoFile, index |-> "absent", corrupt |-> TRUE]
PlainFile == [kind |-> "file", manifest |-> NoFile, index |-> "absent", corrupt |-> TRUE]
DirNode(m, i) == [kind |-> "dir", manifest |-> m, index |-> i, corrupt |-> TRUE]
ZipNode(m, i) == [kind |-> "file", manifest |-> m, index |-> i, corrupt |-> FALSE]

\* names of the entries of the plugin folder
P1 == <<"p">>
P2 == <<"q">>
Z1 == <<"r", ".", "z", "i", "p">>
Z2 == <<"s", ".", "z", "i", "p", "b", ".", "z", "i", "p">>
Z3 == <<"s", "b", ".", "z", "i", "p", ".", "z", "i", "p">>
EntryNames == {P1, P2, Z1, Z2, Z3}

\* paths: path.join(base directory, name)
RootPath == [base |-> "root", name |-> <<>>]
NoPath == [base |-> "none", name |-> <<>>]
RootJoin(name) == [base |-> "root", name |-> name]
CacheJoin(name) == [base |-> "cache", name |-> name]

\* this.cacheDir = join(tmpdir(), 'augment-cache')
CacheDirName == <<"a", "u", "g", "m", "e", "n", "t", "-", "c", "a", "c", "h", "e">>
CacheDir == [base |-> "tmp", name |-> CacheDirName]
\* the cache directory itself, as an entry of the extraction cache
CacheRootKey == <<>>

\* the name of the entry-point file every plugin directory may hold
IndexJs == <<"i">>

\* contents of an entry-point file
GoodCodes == {"A", "B"}
Codes == {"A", "B", "R", "T", "U", "X", "N"}
\* and with them "D", a module that has a default export whose value is null
\* ("B" is a module without default export)
ExportCodes == Codes \cup {"D"}

\* the outcome of evaluating a module's top-level code: it completes, throws
\* an Error object, throws null / undefined, or never finishes ("H", a module
\* whose top-level await is never settled)
EvalOutcome(code) ==
  CASE code = "X" -> "throwError"
    [] code = "N" -> "throwNullish"
    [] code = "H" -> "hang"
    [] OTHER -> "ok"

\* whether the module has a default export that is neither null nor undefined
HasDefault(code) == code \notin {"B", "D"}

\* the configured validator, a function of the value it is given:
\* true, false, or it throws (an Error object, or null / undefined)
Validator(pluginCode) ==
  CASE pluginCode.code = "R" -> "false"
    [] pluginCode.code = "T" -> "throwError"
    [] pluginCode.code = "U" -> "throwNullish"
    [] OTHER -> "true"

----------------------------------------------------------------------------
(* State *)

VARIABLES
  fsRoot,       \* the plugin folder: "ok", "ENOENT" (missing) or "EACCES"
  fsEnt,        \* the node of each entry name of the plugin folder
  fsOrder,      \* the order in which readdir lists the entries
  fsTmp,        \* the platform temp area: "ok", "ENOENT" or "EACCES"
  fsCache,      \* the extraction cache: extracted directory per name
  now,          \* Date.now()
  moduleCache,  \* the runtime's module map: import URL -> evaluated module
  options,      \* PluginHost.options
  plugins,      \* PluginHost.plugins
  calls,        \* the reload() calls, each at one of its awaits
  started,      \* number of reload() invocations so far
  edits,        \* number of filesystem changes so far
  hist,         \* what each finished reload() left in the registry
  held          \* the list a caller got from getAll() and still holds

vars == <<fsRoot, fsEnt, fsOrder, fsTmp, fsCache, now, moduleCache, options,
          plugins, calls, started, edits, hist, held>>

fsVars == <<fsRoot, fsEnt, fsOrder, fsTmp>>

Calls == {1, 2}

\* the node a path names
NodeAt(path) ==
  CASE path.base = "root" ->
         IF fsRoot = "ENOENT" \/ path.name \notin EntryNames
           THEN NoNode ELSE fsEnt[path.name]
    [] path.base = "cache" ->
         IF fsTmp = "ENOENT" \/ path.name \notin DOMAIN fsCache
           THEN NoNode ELSE fsCache[path.name]
    [] OTHER -> NoNode

\* fs.access(join(dir, 'plugin.manifest.json'), R_OK) succeeds
ManifestReadable(dir) ==
  NodeAt(dir).kind = "dir" /\ NodeAt(dir).manifest.st \in {"garbage", "json"}

\* fs.readFile(join(pluginPath, 'plugin.manifest.json')): errno code and file
ReadManifestFile(pluginPath) ==
  LET n == NodeAt(pluginPath)
  IN CASE n.kind = "none" -> [code |-> "ENOENT", file |-> NoFile]
       [] n.kind = "file" -> [code |-> "ENOTDIR", file |-> NoFile]
       [] n.manifest.st = "absent" -> [code |-> "ENOENT", file |-> NoFile]
       [] n.manifest.st = "noperm" -> [code |-> "EACCES", file |-> NoFile]
       [] OTHER -> [code |-> "none", file |-> n.manifest]

\* errors as thrown values
NoError == [name |-> "none", message |-> "", path |-> NoPath]
Err(name, message, path) == [name |-> name, message |-> message, path |-> path]

ManifestFailure(message, pluginPath) ==
  [ok |-> FALSE, manifest |-> JUndef,
   error |-> Err("ManifestValidationError", message, pluginPath)]

\* readManifest(pluginPath): the manifest, or the ManifestValidationError
readManifest(pluginPath) ==
  LET r == ReadManifestFile(pluginPath)
  IN IF r.code = "ENOENT"
       THEN ManifestFailure("Manifest file not found", pluginPath)
     ELSE IF r.code # "none"
       THEN ManifestFailure("Failed to read manifest", pluginPath)
     ELSE IF r.file.st = "garbage"
       THEN ManifestFailure("Invalid JSON in manifest", pluginPath)
     ELSE IF validateManifest(r.file.json) # "ok"
       THEN ManifestFailure(validateManifest(r.file.json), pluginPath)
     ELSE [ok |-> TRUE, manifest |-> r.file.json, error |-> NoError]

\* fs.readdir(rootPath, {withFileTypes: true}): errno code and entries
Readdir ==
  IF fsRoot # "ok" THEN [code |-> fsRoot, entries |-> <<>>]
  ELSE [code |-> "none",
        entries |-> SelectSeq(fsOrder, LAMBDA n : fsEnt[n].kind # "none")]

\* mutant: every failure to read the folder is reported as a missing folder
ScanError_AlwaysNotFound(code) == Err("Error", "Plugin directory not found", RootPath)

\* the error a sub-scan rejects with when reading the folder fails with code
ScanError(code) ==
  IF code = "ENOENT"
    THEN Err("Error", "Plugin directory not found", RootPath)
    ELSE Err("Error", code, RootPath)

----------------------------------------------------------------------------
(* PluginHost and PluginScanner: the calls *)

EmptyMap == [k \in {} |-> NoNode]

\* mutant: set keeps the entry a key already has
MapPut_KeepFirst(m, key, value) ==
  [k \in (DOMAIN m) \cup {key} |-> IF k \in DOMAIN m THEN m[k] ELSE value]

\* mutant: set drops the other entries
MapPut_Only(m, key, value) == [k \in {key} |-> value]

\* Map.prototype.set
MapPut(m, key, value) ==
  [k \in (DOMAIN m) \cup {key} |-> IF k = key THEN value ELSE m[k]]

NoUrl == [dir |-> NoPath, file |-> <<>>, t |-> 0]

\* a reload() call: where it stands (pc: in scan(), in the loop of
\* loadSinglePlugin, returned or threw), its two sub-scans (d: scanDirectories,
\* z: scanZipFiles), its loop over pluginPaths, and a record of what it did:
\* scanners constructed, paths given to loadSinglePlugin, wrappers stored
\* (with the module's content and the file's content at that time), warnings
IdleCall ==
  [pc |-> "idle", err |-> NoError,
   dpc |-> "off", dents |-> <<>>, di |-> 0, dres |-> <<>>,
   zpc |-> "off", zents |-> <<>>, zi |-> 0, zres |-> <<>>,
   paths |-> <<>>, li |-> 0, lpc |-> "off", man |-> JUndef, url |-> NoUrl,
   scans |-> 0, tried |-> <<>>, loaded |-> <<>>, warns |-> <<>>,
   overlapped |-> FALSE, e0 |-> 0, n |-> 0, mk |-> <<>>, ex |-> <<>>,
   vcalls |-> <<>>]

Running(k) == k.pc \in {"scan", "load"}
Finished(k) == k.pc \in {"returned", "threw"}
SubScanning(k) ==
  k.dpc \in {"readdir", "access"} \/ k.zpc \in {"readdir", "mkdir", "extract", "access"}
Busy(k) == Running(k) \/ SubScanning(k)
Quiet == \A c \in Calls : ~Busy(calls[c])

\* mutant: every host scans its folder
isFolderOptions_Always == TRUE

\* isFolderOptions: 'folder' in options
isFolderOptions == options.mode = "folder"

\* console.warn
\* mutant: nothing is printed
Warn_Silent(k, text, path, name, message) == k

Warn(k, text, path, name, message) ==
  [k EXCEPT !.warns = Append(@, [text |-> text, path |-> path, name |-> name,
                                 message |-> message])]

\* the for loop of reload(): call loadSinglePlugin on the next path (it awaits
\* readManifest), or return when the paths are exhausted
LoadNext(k) ==
  IF k.li < Len(k.paths)
    THEN [k EXCEPT !.pc = "load", !.li = @ + 1, !.lpc = "manifest",
                   !.tried = Append(@, k.paths[k.li + 1])]
    ELSE [k EXCEPT !.pc = "returned", !.lpc = "off"]

\* mutant: scan() returns the directories only
ScanResult_DirsOnly(directories, zipFiles) == directories

\* mutant: the archives' paths come first
ScanResult_ZipsFirst(directories, zipFiles) == zipFiles \o directories

\* scan(): [...directories, ...zipFiles]
ScanResult(directories, zipFiles) == directories \o zipFiles

\* Promise.all in scan(): reload() goes on once both sub-scans have returned
Settle(k) ==
  IF k.pc = "scan" /\ k.dpc = "done" /\ k.zpc = "done"
    THEN LoadNext([k EXCEPT !.paths = ScanResult(k.dres, k.zres)])
    ELSE k

\* a sub-scan rejects: scan() and reload() reject with the first such error
Reject(k, error) ==
  IF k.pc = "scan" THEN [k EXCEPT !.pc = "threw", !.err = error] ELSE k

\* what a finished reload() left: key -> manifest
Summary(k, reg) ==
  [reg |-> [n \in DOMAIN reg |-> reg[n].manifest], pc |-> k.pc,
   loaded |-> k.loaded, overlapped |-> k.overlapped, e0 |-> k.e0, e1 |-> edits]

\* the step of call c that replaces its record by k, with the registry reg
Step(c, k, reg) ==
  /\ calls' = [calls EXCEPT ![c] = k]
  /\ plugins' = reg
  /\ hist' = IF Finished(k) /\ ~Finished(calls[c])
               THEN Append(hist, Summary(k, reg)) ELSE hist

\* mutant: reload() does not clear the registry
ClearPlugins_Keep(reg) == reg

\* plugins.clear()
ClearPlugins(reg) == EmptyMap

\* reload(), up to its first await
StartReload(c) ==
  /\ started < MaxReloads
  /\ ~Busy(calls[c])
  /\ \A d \in Calls : d < c => Busy(calls[d])
  /\ started' = started + 1
  /\ plugins' = ClearPlugins(plugins)
  /\ LET over == \E d \in Calls \ {c} : Running(calls[d])
         fresh == [IdleCall EXCEPT !.overlapped = over, !.e0 = edits,
                                  !.n = started + 1]
         k == IF isFolderOptions
                THEN [fresh EXCEPT !.pc = "scan", !.dpc = "readdir",
                                   !.zpc = "readdir", !.scans = 1]
                ELSE LoadNext([fresh EXCEPT !.paths = <<options.pluginPath>>])
     IN calls' = [d \in Calls |->
                    IF d = c THEN k
                    ELSE IF Running(calls[d])
                      THEN [calls[d] EXCEPT !.overlapped = TRUE]
                      ELSE calls[d]]
  /\ UNCHANGED <<fsVars, fsCache, now, moduleCache, options, held, edits, hist>>

\* scanDirectories: readdir returns
ScanDirsReaddir(c) ==
  /\ calls[c].dpc = "readdir"
  /\ LET k == calls[c]
         r == Readdir
         dirs == SelectSeq(r.entries, LAMBDA n : fsEnt[n].kind = "dir")
     IN IF r.code # "none"
          THEN Step(c, Reject([k EXCEPT !.dpc = "rejected"], ScanError(r.code)), plugins)
        ELSE IF dirs = <<>>
          THEN Step(c, Settle([k EXCEPT !.dpc = "done"]), plugins)
        ELSE Step(c, [k EXCEPT !.dpc = "access", !.dents = dirs, !.di = 1], plugins)
  /\ UNCHANGED <<fsVars, fsCache, now, moduleCache, options, held, started, edits>>

\* scanDirectories: access(manifestPath, R_OK) returns for the next directory
ScanDirsAccess(c) ==
  /\ calls[c].dpc = "access"
  /\ LET k == calls[c]
         dirPath == RootJoin(k.dents[k.di])
         k1 == IF ManifestReadable(dirPath)
                 THEN [k EXCEPT !.dres = Append(@, dirPath)] ELSE k
     IN IF k.di < Len(k.dents)
          THEN Step(c, [k1 EXCEPT !.di = @ + 1], plugins)
          ELSE Step(c, Settle([k1 EXCEPT !.dpc = "done"]), plugins)
  /\ UNCHANGED <<fsVars, fsCache, now, moduleCache, options, held, started, edits>>

\* scanZipFiles: readdir returns
ScanZipsReaddir(c) ==
  /\ calls[c].zpc = "readdir"
  /\ LET k == calls[c]
         r == Readdir
         zips == SelectSeq(r.entries,
                           LAMBDA n : fsEnt[n].kind = "file" /\ EndsWith(n, DotZip))
     IN IF r.code # "none"
          THEN Step(c, Reject([k EXCEPT !.zpc = "rejected"], ScanError(r.code)), plugins)
          ELSE Step(c, [k EXCEPT !.zpc = "mkdir", !.zents = zips], plugins)
  /\ UNCHANGED <<fsVars, fsCache, now, moduleCache, options, held, started, edits>>

\* mutant: mkdir without the recursive option
MkdirOptions_Plain == [recursive |-> FALSE]

\* the options of mkdir(this.cacheDir, { recursive: true })
MkdirOptions == [recursive |-> TRUE]

\* fs.mkdir(dir, options) of the cache directory: errno code, "none" when it
\* returns; without recursive an existing directory is an error
Mkdir(dir, opts) ==
  IF fsTmp # "ok" THEN fsTmp
  ELSE IF ~opts.recursive /\ CacheRootKey \in DOMAIN fsCache THEN "EEXIST"
  ELSE "none"

\* scanZipFiles: mkdir(cacheDir, {recursive: true}) returns
ScanZipsMkdir(c) ==
  /\ calls[c].zpc = "mkdir"
  /\ LET r == Mkdir(CacheDir, MkdirOptions)
         k == [calls[c] EXCEPT !.mk = Append(@, [dir |-> CacheDir,
                                                 recursive |-> MkdirOptions.recursive])]
     IN /\ IF r # "none"
             THEN Step(c, Reject([k EXCEPT !.zpc = "rejected"], ScanError(r)), plugins)
           ELSE IF k.zents = <<>>
             THEN Step(c, Settle([k EXCEPT !.zpc = "done"]), plugins)
           ELSE Step(c, [k EXCEPT !.zpc = "extract", !.zi = 1], plugins)
        /\ fsCache' = IF r = "none" /\ CacheRootKey \notin DOMAIN fsCache
                        THEN MapPut(fsCache, CacheRootKey, DirNode(NoFile, "absent"))
                        ELSE fsCache
  /\ UNCHANGED <<fsVars, now, moduleCache, options, held, started, edits>>

\* extractZip: const pluginName = zipName.replace('.zip', '')
ExtractName(zipName) == ReplaceFirst(zipName, DotZip, <<>>)

\* mutant: a directory already extracted is left as it is
ExtractAllTo_KeepOld(old, zip) ==
  IF old.kind = "dir" THEN old ELSE DirNode(zip.manifest, zip.index)

\* zip.extractAllTo(extractPath, true): the archive's entries are written over
\* what the directory holds; files the archive does not have stay
ExtractAllTo(old, zip) ==
  DirNode(IF zip.manifest.st # "absent" THEN zip.manifest ELSE old.manifest,
          IF zip.index # "absent" THEN zip.index ELSE old.index)

\* mutant: the sub-scan returns after the first archive
ZipAdvance_Stop(k) == Settle([k EXCEPT !.zpc = "done"])

\* scanZipFiles: the next archive is handled, or the sub-scan returns
ZipAdvance(k) ==
  IF k.zi < Len(k.zents)
    THEN [k EXCEPT !.zpc = "extract", !.zi = @ + 1]
    ELSE Settle([k EXCEPT !.zpc = "done"])

\* extractZip, up to its await: new AdmZip(zipPath) and extractAllTo, which
\* are synchronous; a failure is caught, warned about and gives null
ScanZipsExtract(c) ==
  /\ calls[c].zpc = "extract"
  /\ LET zipName == calls[c].zents[calls[c].zi]
         zip == NodeAt(RootJoin(zipName))
         pluginName == ExtractName(zipName)
         k == [calls[c] EXCEPT !.ex = Append(@, [name |-> zipName,
                                                 dir |-> CacheJoin(pluginName)])]
         old == IF pluginName \in DOMAIN fsCache THEN fsCache[pluginName] ELSE NoNode
     IN IF zip.kind # "file" \/ zip.corrupt \/ fsTmp # "ok"
          THEN /\ Step(c, ZipAdvance(Warn(k, "Failed to extract", NoPath, zipName,
                                          "extract")), plugins)
               /\ UNCHANGED fsCache
          ELSE /\ Step(c, [k EXCEPT !.zpc = "access"], plugins)
               /\ fsCache' = MapPut(fsCache, pluginName, ExtractAllTo(old, zip))
  /\ UNCHANGED <<fsVars, now, moduleCache, options, held, started, edits>>

\* extractZip: access(manifestPath, R_OK) returns for the extracted directory
ScanZipsAccess(c) ==
  /\ calls[c].zpc = "access"
  /\ LET k == calls[c]
         extractPath == CacheJoin(ExtractName(k.zents[k.zi]))
     IN IF ManifestReadable(extractPath)
          THEN Step(c, ZipAdvance([k EXCEPT !.zres = Append(@, extractPath)]), plugins)
          ELSE Step(c, ZipAdvance(k), plugins)
  /\ UNCHANGED <<fsVars, fsCache, now, moduleCache, options, held, started, edits>>

----------------------------------------------------------------------------
(* loadSinglePlugin *)

\* Date.now(), the value of the cache-busting query parameter t
LoadToken == now

\* pathToFileURL(join(pluginPath, manifest.entryPoint)) with ?t=<token>
FileUrl(pluginPath, manifest, token) ==
  [dir |-> pluginPath, file |-> manifest.f.entryPoint.s, t |-> token]

\* the entry-point file on disk: its content, or "absent"
EntryFile(url) ==
  IF NodeAt(url.dir).kind = "dir" /\ url.file = IndexJs
    THEN NodeAt(url.dir).index ELSE "absent"

\* import(fileUrl.href): the module the runtime already holds for this URL,
\* or else the file as it is on disk now, evaluated
Import(url) ==
  IF url \in DOMAIN moduleCache THEN moduleCache[url]
  ELSE IF EntryFile(url) = "absent" THEN [outcome |-> "notFound", code |-> "absent"]
  ELSE [outcome |-> EvalOutcome(EntryFile(url)), code |-> EntryFile(url)]

\* the runtime's module map after import(url) gave module m
Memoize(url, m) ==
  IF m.outcome = "notFound" THEN moduleCache ELSE MapPut(moduleCache, url, m)

\* mutant: loadedModule.default, without the fallback
PluginCode_DefaultOnly(m, url) ==
  [code |-> IF HasDefault(m.code) THEN m.code ELSE "undefined", part |-> "default",
   url |-> url]

\* loadedModule.default ?? loadedModule
PluginCode(m, url) ==
  [code |-> m.code, part |-> IF HasDefault(m.code) THEN "default" ELSE "module",
   url |-> url]

\* the wrapper stored by plugins.set(manifest.name, ...)
Wrapper(manifest, pluginPath, pluginCode) ==
  [manifest |-> manifest, pluginPath |-> pluginPath, plugin |-> pluginCode]

\* mutant: the catch block rethrows what it caught
Catch_Rethrow(k, pluginPath, thrown) ==
  [k EXCEPT !.pc = "threw", !.lpc = "off", !.err = Err("Error", thrown, pluginPath)]

\* the catch block of loadSinglePlugin: console.warn(..., error.message); reading
\* .message of null or undefined throws a TypeError out of the catch block
Catch(k, pluginPath, thrown) ==
  IF thrown = "nullish"
    THEN [k EXCEPT !.pc = "threw", !.lpc = "off",
                   !.err = Err("TypeError", "Cannot read properties of null", pluginPath)]
    ELSE LoadNext(Warn(k, "Failed to load plugin at", pluginPath, <<>>, thrown))

\* loadSinglePlugin: readManifest returns; on success the URL is built with
\* the current time and import() is awaited
LoadReadManifest(c) ==
  /\ calls[c].pc = "load" /\ calls[c].lpc = "manifest"
  /\ LET k == calls[c]
         pluginPath == k.paths[k.li]
         r == readManifest(pluginPath)
     IN IF r.ok
          THEN Step(c, [k EXCEPT !.lpc = "import", !.man = r.manifest,
                                 !.url = FileUrl(pluginPath, r.manifest, LoadToken)],
                    plugins)
          ELSE Step(c, Catch(k, pluginPath, r.error.message), plugins)
  /\ UNCHANGED <<fsVars, fsCache, now, moduleCache, options, held, started, edits>>

\* mutant: the validator's result is not looked at
ValidatorVerdict_Skip(pluginCode) == "true"

\* if (this.options.validator) { if (!this.options.validator(pluginCode)) ... }
ValidatorVerdict(pluginCode) ==
  IF options.validator THEN Validator(pluginCode) ELSE "true"

\* mutant: the wrapper is stored under the manifest's version
RegistryKey_Version(manifest) == manifest.f.version.s

\* the key under which loadSinglePlugin stores the wrapper: manifest.name
RegistryKey(manifest) == manifest.f.name.s

\* loadSinglePlugin: import() returns or throws; then, without another await,
\* the export is taken, the validator is applied and the wrapper is stored
LoadImport(c) ==
  /\ calls[c].pc = "load" /\ calls[c].lpc = "import"
  /\ Import(calls[c].url).outcome # "hang"
  /\ LET k0 == calls[c]
         pluginPath == k0.paths[k0.li]
         m == Import(k0.url)
         pluginCode == PluginCode(m, k0.url)
         verdict == ValidatorVerdict(pluginCode)
         \* the record notes each call of the validator
         k == IF m.outcome = "ok" /\ options.validator
                THEN [k0 EXCEPT !.vcalls = Append(@, pluginPath)] ELSE k0
     IN /\ moduleCache' = Memoize(k.url, m)
        /\ IF m.outcome = "notFound"
             THEN Step(c, Catch(k, pluginPath, "Cannot find module"), plugins)
           ELSE IF m.outcome = "throwError"
             THEN Step(c, Catch(k, pluginPath, "module threw"), plugins)
           ELSE IF m.outcome = "throwNullish"
             THEN Step(c, Catch(k, pluginPath, "nullish"), plugins)
           ELSE IF verdict = "throwError"
             THEN Step(c, Catch(k, pluginPath, "validator threw"), plugins)
           ELSE IF verdict = "throwNullish"
             THEN Step(c, Catch(k, pluginPath, "nullish"), plugins)
           ELSE IF verdict = "false"
             THEN Step(c, LoadNext(Warn(k, "Plugin validation failed for", pluginPath,
                                        k.man.f.name.s, "")), plugins)
           ELSE Step(c, LoadNext([k EXCEPT !.loaded =
                                    Append(@, [path |-> pluginPath,
                                               name |-> RegistryKey(k.man),
                                               code |-> m.code,
                                               disk |-> EntryFile(k.url)])]),
                     MapPut(plugins, RegistryKey(k.man),
                            Wrapper(k.man, pluginPath, pluginCode)))
  /\ UNCHANGED <<fsVars, fsCache, now, options, held, started, edits>>

\* getAll(): the wrappers whose plugin is not undefined, as LoadedPlugin values
getAll ==
  {[manifest |-> plugins[n].manifest, plugin |-> plugins[n].plugin] :
     n \in {x \in DOMAIN plugins : plugins[x].plugin.code # "undefined"}}

\* an array: a new object with its own elements ("copy"), or the registry's
\* own collection of values ("live"); "none" when no array is held
NoList == [ref |-> "none", items |-> {}]

\* mutant: the caller gets the registry's own collection of values
ArrayFrom_Live(values) == [ref |-> "live", items |-> {}]

\* Array.from(this.plugins.values()).filter(...).map(...): a new array
ArrayFrom(values) == [ref |-> "copy", items |-> values]

\* what the caller reads in the list it holds
HeldItems == IF held.ref = "live" THEN getAll ELSE held.items

\* a caller calls getAll() and keeps the list
GetAllCall ==
  /\ held' = ArrayFrom(getAll)
  /\ held' # held
  /\ UNCHANGED <<fsVars, fsCache, now, moduleCache, options, plugins, calls,
                 started, edits, hist>>

\* an element no registry holds
ForeignPlugin == [manifest |-> JNull, plugin |-> [code |-> "A", part |-> "module",
                                                  url |-> NoUrl]]

\* the caller removes an element of the list it holds (list.splice)
ListRemove ==
  /\ held.ref # "none"
  /\ \E x \in HeldItems :
       IF held.ref = "live"
         THEN /\ plugins' = [n \in {k \in DOMAIN plugins :
                                      plugins[k].manifest # x.manifest} |-> plugins[n]]
              /\ UNCHANGED held
         ELSE /\ held' = [held EXCEPT !.items = @ \ {x}]
              /\ UNCHANGED plugins
  /\ UNCHANGED <<fsVars, fsCache, now, moduleCache, options, calls, started,
                 edits, hist>>

\* the caller adds an element to the list it holds (list.push)
ListAdd ==
  /\ held.ref # "none" /\ ForeignPlugin \notin HeldItems
  /\ IF held.ref = "live"
       THEN /\ plugins' = MapPut(plugins, <<>>,
                                 Wrapper(ForeignPlugin.manifest, NoPath,
                                         ForeignPlugin.plugin))
            /\ UNCHANGED held
       ELSE /\ held' = [held EXCEPT !.items = @ \cup {ForeignPlugin}]
            /\ UNCHANGED plugins
  /\ UNCHANGED <<fsVars, fsCache, now, moduleCache, options, calls, started,
                 edits, hist>>

\* mutant: find returns a plugin whatever the name
find_Any(name) ==
  IF plugins = EmptyMap THEN JUndef
  ELSE LET n == CHOOSE x \in DOMAIN plugins : TRUE
       IN [manifest |-> plugins[n].manifest, plugin |-> plugins[n].plugin]

\* find(name): the LoadedPlugin, or undefined
find(name) ==
  IF name \in DOMAIN plugins /\ plugins[name].plugin.code # "undefined"
    THEN [manifest |-> plugins[name].manifest, plugin |-> plugins[name].plugin]
    ELSE JUndef

----------------------------------------------------------------------------
(* The environment: the clock and the filesystem *)

Tick ==
  /\ now < MaxClock
  /\ now' = now + 1
  /\ UNCHANGED <<fsVars, fsCache, moduleCache, options, held, plugins, calls, started,
                 edits, hist>>

\* the entries the environment changes, and what it writes
EditTargets == {P1, Z1}
EditCodes == {"B"}

\* an entry of the plugin folder is removed
EditRemove(e) ==
  /\ edits < MaxEdits
  /\ fsEnt[e].kind # "none"
  /\ fsEnt' = [fsEnt EXCEPT ![e] = NoNode]
  /\ edits' = edits + 1
  /\ UNCHANGED <<fsRoot, fsOrder, fsTmp, fsCache, now, moduleCache, options, held,
                 plugins, calls, started, hist>>

\* the entry-point file of a plugin directory, or of an archive, is rewritten
EditIndex(e, code) ==
  /\ edits < MaxEdits
  /\ fsEnt[e].kind # "none" /\ fsEnt[e] # PlainFile
  /\ fsEnt[e].index \notin {code, "absent"}
  /\ fsEnt' = [fsEnt EXCEPT ![e].index = code]
  /\ edits' = edits + 1
  /\ UNCHANGED <<fsRoot, fsOrder, fsTmp, fsCache, now, moduleCache, options, held,
                 plugins, calls, started, hist>>

\* the plugin folder is removed, or made unreadable
EditRoot(st) ==
  /\ edits < MaxEdits
  /\ fsRoot = "ok"
  /\ fsRoot' = st
  /\ edits' = edits + 1
  /\ UNCHANGED <<fsEnt, fsOrder, fsTmp, fsCache, now, moduleCache, options, held,
                 plugins, calls, started, hist>>

----------------------------------------------------------------------------
(* Initial states: a host just constructed, over a filesystem *)

NameA == <<"a">>
NameB == <<"b">>

ManA1 == JObj(JStr(NameA), JStr(<<"1">>), JStr(IndexJs), JUndef)
ManA2 == JObj(JStr(NameA), JStr(<<"2">>), JStr(IndexJs), JMap)
ManB == JObj(JStr(NameB), JStr(<<"1">>), JStr(IndexJs), JUndef)
\* a manifest whose version is blank
ManBlankVersion == JObj(JStr(NameA), JStr(<<" ">>), JStr(IndexJs), JUndef)
\* a manifest whose entry point names a file that does not exist
ManOtherEntry == JObj(JStr(NameA), JStr(<<"1">>), JStr(<<"m">>), JUndef)

\* what the entry p may be
P1Nodes ==
  {NoNode, PlainFile,
   DirNode(NoFile, "A"), DirNode(MfNoPerm, "A"), DirNode(MfGarbage, "A"),
   DirNode(MfJson(ManBlankVersion), "A"), DirNode(MfJson(ManOtherEntry), "A"),
   DirNode(MfJson(ManA1), "absent")}
  \cup {DirNode(MfJson(ManA1), code) : code \in Codes}

\* what the entry q may be
P2Nodes ==
  {NoNode, DirNode(MfJson(ManB), "A"), DirNode(MfJson(ManA2), "B"),
   DirNode(MfJson(ManB), "R")}

\* what the entry r.zip may be: nothing, an archive of a plugin, an archive
\* without a manifest, a file that is no archive, a directory
Z1Nodes ==
  {NoNode, ZipNode(MfJson(ManA2), "A"), ZipNode(NoFile, "A"), PlainFile,
   DirNode(MfJson(ManB), "A")}

\* what the extraction cache may hold from earlier scans
CacheStates ==
  {EmptyMap,
   MapPut(MapPut(EmptyMap, CacheRootKey, DirNode(NoFile, "absent")),
          ExtractName(Z1), DirNode(MfJson(ManB), "B"))}

\* what the runtime's module map may hold from earlier loads in this process
\* (an earlier load of p's entry point, made at the current time)
StaleModule == [outcome |-> "ok", code |-> "A"]
ModuleCacheStates ==
  {EmptyMap,
   MapPut(EmptyMap, [dir |-> RootJoin(P1), file |-> IndexJs, t |-> 0], StaleModule)}

Orders == {<<P1, P2, Z1>>, <<Z1, P2, P1>>}

FolderOptions == {[mode |-> "folder", pluginPath |-> NoPath, validator |-> v] :
                    v \in BOOLEAN}
SingleOptions == {[mode |-> "single", pluginPath |-> RootJoin(e), validator |-> v] :
                    e \in {P1, Z1}, v \in BOOLEAN}

Options == FolderOptions \cup SingleOptions

\* 1 when the condition holds, else 0
Count(b) == IF b THEN 1 ELSE 0

\* the initial worlds: every state of p with every state of its siblings; at
\* most one of the readdir order, the temp area, the extraction cache and the
\* module map is out of the ordinary at a time, and what a configuration
\* never reads is left ordinary
GoodP1 == DirNode(MfJson(ManA1), "A")
GoodZ1 == ZipNode(MfJson(ManA2), "A")

WorldOk(w) ==
  /\ Count(w.order # <<P1, P2, Z1>>) + Count(w.tmp # "ok")
       + Count(w.cache # EmptyMap) + Count(w.modules # EmptyMap) <= 1
  /\ (~w.options.validator) => w.p1.index \notin {"R", "T", "U"}
  /\ w.z1 \in {PlainFile, DirNode(MfJson(ManB), "A")} => w.p2 = NoNode
  /\ w.p2.index = "R" =>
       /\ w.options.validator /\ w.p1 = DirNode(MfJson(ManA1), "R")
       /\ w.z1 \in {NoNode, GoodZ1}
  /\ w.order # <<P1, P2, Z1>> => w.p1.kind = "dir" /\ w.p2 # NoNode
  /\ w.tmp # "ok" => w.p1 \in {NoNode, GoodP1} /\ w.p2 = NoNode
  /\ w.cache # EmptyMap =>
       /\ w.p1 \in {NoNode, GoodP1} /\ w.p2 = NoNode
       /\ w.z1 \in {GoodZ1, ZipNode(NoFile, "A")}
  /\ w.modules # EmptyMap =>
       /\ w.p1.kind = "dir" /\ w.p1.manifest = MfJson(ManA1) /\ w.p2 = NoNode
       /\ w.z1 \in {NoNode, GoodZ1}
  /\ w.options.mode = "single" =>
       /\ w.order = <<P1, P2, Z1>> /\ w.tmp = "ok" /\ w.cache = EmptyMap
       /\ \/ w.p2 = NoNode /\ w.z1 = NoNode
          \/ w.p2 = DirNode(MfJson(ManB), "A") /\ w.z1 = GoodZ1
  /\ w.options.pluginPath = RootJoin(Z1) =>
       /\ w.p1 \in {NoNode, GoodP1}
       /\ w.modules = EmptyMap

Worlds ==
  {w \in [p1 : P1Nodes, p2 : P2Nodes, z1 : Z1Nodes, order : Orders,
          tmp : {"ok", "ENOENT", "EACCES"}, cache : CacheStates,
          modules : ModuleCacheStates, options : Options] : WorldOk(w)}

\* a host just constructed in world w
InitWorld(w) ==
    /\ fsRoot = "ok"
    /\ fsEnt = [e \in EntryNames |->
                  IF e = P1 THEN w.p1 ELSE IF e = P2 THEN w.p2
                  ELSE IF e = Z1 THEN w.z1
                  ELSE IF e = Z2 /\ "z2" \in DOMAIN w THEN w.z2
                  ELSE IF e = Z3 /\ "z3" \in DOMAIN w THEN w.z3
                  ELSE NoNode]
    /\ fsOrder = w.order
    /\ fsTmp = w.tmp
    /\ fsCache = w.cache
    /\ now = 0
    /\ moduleCache = w.modules
    /\ options = w.options
    /\ plugins = EmptyMap
    /\ calls = [c \in Calls |-> IdleCall]
    /\ started = 0
    /\ edits = 0
    /\ hist = <<>>
    /\ held = NoList

Init == \E w \in Worlds : InitWorld(w)

----------------------------------------------------------------------------
(* Specification: reload() calls made one after the other, the filesystem   *)
(* changing between them                                                    *)

Next ==
  \/ \E c \in Calls : Quiet /\ StartReload(c)
  \/ \E c \in Calls : ScanDirsReaddir(c)
  \/ \E c \in Calls : ScanDirsAccess(c)
  \/ \E c \in Calls : ScanZipsReaddir(c)
  \/ \E c \in Calls : ScanZipsMkdir(c)
  \/ \E c \in Calls : ScanZipsExtract(c)
  \/ \E c \in Calls : ScanZipsAccess(c)
  \/ \E c \in Calls : LoadReadManifest(c)
  \/ \E c \in Calls : LoadImport(c)
  \/ Quiet /\ Tick
  \/ \E e \in EditTargets : Quiet /\ EditRemove(e)
  \/ \E e \in EditTargets, code \in EditCodes : Quiet /\ EditIndex(e, code)
  \/ \E st \in {"ENOENT", "EACCES"} : Quiet /\ EditRoot(st)

Spec == Init /\ [][Next]_vars

----------------------------------------------------------------------------
(* Specification: a single-path host over a plugin directory whose manifest *)
(* file is any of a range of contents; reload() reads it                    *)

\* the values a required property of the manifest may have
FieldValues ==
  {JUndef, JNull, JNum, JStr(<<>>), JStr(<<" ">>), JStr(IndexJs)}

\* the values the meta property may have
MetaValues == {JUndef, JNull, JNum, JBool, JStr(IndexJs), JArr, JMap}

\* what JSON.parse may return for the manifest file
ManifestJson ==
  {JNull, JNum, JBool, JStr(IndexJs), JArr}
  \cup {JObj(n, v, e, m) : n \in FieldValues, v \in FieldValues, e \in FieldValues,
                           m \in MetaValues}

ManifestFiles == {NoFile, MfNoPerm, MfGarbage} \cup {MfJson(j) : j \in ManifestJson}

ManifestWorlds ==
  [p1 : {NoNode, PlainFile} \cup {DirNode(f, "A") : f \in ManifestFiles},
   p2 : {NoNode}, z1 : {NoNode}, order : {<<P1, P2, Z1>>}, tmp : {"ok"},
   cache : {EmptyMap}, modules : {EmptyMap},
   options : {[mode |-> "single", pluginPath |-> RootJoin(P1), validator |-> FALSE]}]

InitManifest == \E w \in ManifestWorlds : InitWorld(w)

NextManifest ==
  \/ \E c \in Calls : Quiet /\ StartReload(c)
  \/ \E c \in Calls : LoadReadManifest(c)
  \/ \E c \in Calls : LoadImport(c)

SpecManifest == InitManifest /\ [][NextManifest]_vars

----------------------------------------------------------------------------
(* Specification: a folder host over a folder with two archives, sound or   *)
(* not, next to a plugin directory or a plain file                          *)

ZipWorlds ==
  [p1 : {NoNode, PlainFile, GoodP1, DirNode(NoFile, "A")}, p2 : {NoNode},
   z1 : Z1Nodes,
   z2 : {NoNode, PlainFile, ZipNode(MfJson(ManB), "A"), ZipNode(NoFile, "A")},
   order : {<<P1, Z1, Z2>>, <<Z2, Z1, P1>>}, tmp : {"ok"},
   cache : CacheStates, modules : {EmptyMap},
   options : {[mode |-> "folder", pluginPath |-> NoPath, validator |-> FALSE]}]

InitZip == \E w \in ZipWorlds : InitWorld(w)

NextZip ==
  \/ \E c \in Calls : Quiet /\ StartReload(c)
  \/ \E c \in Calls : ScanDirsReaddir(c)
  \/ \E c \in Calls : ScanDirsAccess(c)
  \/ \E c \in Calls : ScanZipsReaddir(c)
  \/ \E c \in Calls : ScanZipsMkdir(c)
  \/ \E c \in Calls : ScanZipsExtract(c)
  \/ \E c \in Calls : ScanZipsAccess(c)
  \/ \E c \in Calls : LoadReadManifest(c)
  \/ \E c \in Calls : LoadImport(c)
  \/ \E e \in EditTargets : Quiet /\ EditRemove(e)

SpecZip == InitZip /\ [][NextZip]_vars

----------------------------------------------------------------------------
(* Specification: a folder host over a folder with archives whose names     *)
(* hold '.zip' more than once                                               *)

NamesWorlds ==
  [p1 : {NoNode, GoodP1}, p2 : {NoNode}, z1 : {NoNode, GoodZ1},
   z2 : {NoNode, PlainFile, ZipNode(MfJson(ManB), "A"), ZipNode(NoFile, "A")},
   z3 : {NoNode, PlainFile, ZipNode(MfJson(ManA2), "B")},
   order : {<<P1, Z1, Z2, Z3>>, <<Z3, Z2, Z1, P1>>}, tmp : {"ok"},
   cache : {EmptyMap}, modules : {EmptyMap},
   options : {[mode |-> "folder", pluginPath |-> NoPath, validator |-> FALSE]}]

InitNames == \E w \in NamesWorlds : InitWorld(w)

NextNames ==
  \/ \E c \in Calls : Quiet /\ StartReload(c)
  \/ \E c \in Calls : ScanDirsReaddir(c)
  \/ \E c \in Calls : ScanDirsAccess(c)
  \/ \E c \in Calls : ScanZipsReaddir(c)
  \/ \E c \in Calls : ScanZipsMkdir(c)
  \/ \E c \in Calls : ScanZipsExtract(c)
  \/ \E c \in Calls : ScanZipsAccess(c)
  \/ \E c \in Calls : LoadReadManifest(c)
  \/ \E c \in Calls : LoadImport(c)

SpecNames == InitNames /\ [][NextNames]_vars

----------------------------------------------------------------------------
(* Specification: a caller that keeps and changes the list getAll() gave,   *)
(* between reload() calls over a folder that loses entries                  *)

SnapshotWorlds ==
  [p1 : {GoodP1, NoNode}, p2 : {NoNode, DirNode(MfJson(ManB), "A")},
   z1 : {NoNode, GoodZ1}, order : {<<P1, P2, Z1>>}, tmp : {"ok"},
   cache : {EmptyMap}, modules : {EmptyMap},
   options : {[mode |-> "folder", pluginPath |-> NoPath, validator |-> FALSE]}]

InitSnapshot == \E w \in SnapshotWorlds : InitWorld(w)

NextSnapshot ==
  \/ \E c \in Calls : Quiet /\ StartReload(c)
  \/ \E c \in Calls : ScanDirsReaddir(c)
  \/ \E c \in Calls : ScanDirsAccess(c)
  \/ \E c \in Calls : ScanZipsReaddir(c)
  \/ \E c \in Calls : ScanZipsMkdir(c)
  \/ \E c \in Calls : ScanZipsExtract(c)
  \/ \E c \in Calls : ScanZipsAccess(c)
  \/ \E c \in Calls : LoadReadManifest(c)
  \/ \E c \in Calls : LoadImport(c)
  \/ \E e \in EditTargets : Quiet /\ EditRemove(e)
  \/ Quiet /\ GetAllCall
  \/ ListRemove
  \/ ListAdd

SpecSnapshot == InitSnapshot /\ [][NextSnapshot]_vars

----------------------------------------------------------------------------
(* Specification: reload() calls on one host that overlap, over a folder of *)
(* loadable plugins from which entries are removed at any moment            *)

RaceWorlds ==
  {w \in [p1 : {GoodP1}, p2 : {NoNode, DirNode(MfJson(ManB), "A")},
          z1 : {NoNode, GoodZ1}, order : {<<P1, P2, Z1>>}, tmp : {"ok"},
          cache : {EmptyMap}, modules : {EmptyMap},
          options : {[mode |-> "folder", pluginPath |-> NoPath,
                      validator |-> FALSE]}] : WorldOk(w)}

InitRace == \E w \in RaceWorlds : InitWorld(w)

NextRace ==
  \/ \E c \in Calls : StartReload(c)
  \/ \E c \in Calls : ScanDirsReaddir(c)
  \/ \E c \in Calls : ScanDirsAccess(c)
  \/ \E c \in Calls : ScanZipsReaddir(c)
  \/ \E c \in Calls : ScanZipsMkdir(c)
  \/ \E c \in Calls : ScanZipsExtract(c)
  \/ \E c \in Calls : ScanZipsAccess(c)
  \/ \E c \in Calls : LoadReadManifest(c)
  \/ \E c \in Calls : LoadImport(c)
  \/ \E e \in EditTargets : EditRemove(e)

SpecRace == InitRace /\ [][NextRace]_vars

----------------------------------------------------------------------------
(* Specification: a single-path host, with or without validator, over a     *)
(* plugin directory whose entry point is any kind of module                 *)

ExportWorlds ==
  [p1 : {DirNode(MfJson(ManA1), code) : code \in ExportCodes},
   p2 : {NoNode}, z1 : {NoNode}, order : {<<P1, P2, Z1>>}, tmp : {"ok"},
   cache : {EmptyMap}, modules : {EmptyMap},
   options : {[mode |-> "single", pluginPath |-> RootJoin(P1), validator |-> v] :
                v \in BOOLEAN}]

InitExport == \E w \in ExportWorlds : InitWorld(w)

NextExport ==
  \/ \E c \in Calls : Quiet /\ StartReload(c)
  \/ \E c \in Calls : LoadReadManifest(c)
  \/ \E c \in Calls : LoadImport(c)
  \/ Quiet /\ Tick
  \/ \E code \in {"B", "D"} : Quiet /\ EditIndex(P1, code)

SpecExport == InitExport /\ [][NextExport]_vars

----------------------------------------------------------------------------
(* Specification: a folder host whose awaited operations all return in the  *)
(* end, except the import of a module that hangs                            *)

LiveWorlds ==
  [p1 : {DirNode(MfJson(ManA1), code) : code \in {"A", "H", "N", "X"}},
   p2 : {NoNode, DirNode(MfJson(ManB), "A")},
   z1 : {NoNode, GoodZ1}, order : Orders, tmp : {"ok"},
   cache : {EmptyMap}, modules : {EmptyMap},
   options : {[mode |-> "folder", pluginPath |-> NoPath, validator |-> FALSE]}]

InitLive == \E w \in LiveWorlds : InitWorld(w)

NextLive ==
  \/ \E c \in Calls : Quiet /\ StartReload(c)
  \/ \E c \in Calls : ScanDirsReaddir(c)
  \/ \E c \in Calls : ScanDirsAccess(c)
  \/ \E c \in Calls : ScanZipsReaddir(c)
  \/ \E c \in Calls : ScanZipsMkdir(c)
  \/ \E c \in Calls : ScanZipsExtract(c)
  \/ \E c \in Calls : ScanZipsAccess(c)
  \/ \E c \in Calls : LoadReadManifest(c)
  \/ \E c \in Calls : LoadImport(c)

\* a step of a reload() under way: the operation it awaits returns
AwaitReturns ==
  \E c \in Calls :
    \/ ScanDirsReaddir(c) \/ ScanDirsAccess(c)
    \/ ScanZipsReaddir(c) \/ ScanZipsMkdir(c) \/ ScanZipsExtract(c) \/ ScanZipsAccess(c)
    \/ LoadReadManifest(c) \/ LoadImport(c)

SpecLive == InitLive /\ [][NextLive]_vars /\ WF_vars(AwaitReturns)

----------------------------------------------------------------------------
(* Specification: reload() calls on one host that overlap, with a           *)
(* validator, over a folder that does not change and holds sound and        *)
(* failing plugins, some under the same name                                *)

OverlapWorlds ==
  [p1 : {DirNode(MfJson(ManA1), code) : code \in {"A", "N", "X", "R"}},
   p2 : {NoNode, DirNode(MfJson(ManB), "A"), DirNode(MfJson(ManA2), "B")},
   z1 : {NoNode, GoodZ1, ZipNode(NoFile, "A")},
   order : Orders, tmp : {"ok"}, cache : CacheStates, modules : {EmptyMap},
   options : {[mode |-> "folder", pluginPath |-> NoPath, validator |-> TRUE]}]

InitOverlap == \E w \in OverlapWorlds : InitWorld(w)

NextOverlap ==
  \/ \E c \in Calls : StartReload(c)
  \/ \E c \in Calls : ScanDirsReaddir(c)
  \/ \E c \in Calls : ScanDirsAccess(c)
  \/ \E c \in Calls : ScanZipsReaddir(c)
  \/ \E c \in Calls : ScanZipsMkdir(c)
  \/ \E c \in Calls : ScanZipsExtract(c)
  \/ \E c \in Calls : ScanZipsAccess(c)
  \/ \E c \in Calls : LoadReadManifest(c)
  \/ \E c \in Calls : LoadImport(c)

SpecOverlap == InitOverlap /\ [][NextOverlap]_vars

----------------------------------------------------------------------------
(* Claims *)

\* the names a finished call stored wrappers under
LoadedNames(k) == {k.loaded[i].name : i \in 1..Len(k.loaded)}

\* C1: after a reload() that finished without overlapping another, the keys of
\* the registry are exactly the manifest names of the artifacts that this
\* reload loaded successfully, and every entry was stored by this reload
C1_RegistryIsThisPass ==
  \A c \in Calls :
    (Finished(calls[c]) /\ ~calls[c].overlapped /\ Quiet) =>
      /\ DOMAIN plugins = LoadedNames(calls[c])
      /\ \A n \in DOMAIN plugins :
           \E i \in 1..Len(calls[c].loaded) :
             /\ calls[c].loaded[i].name = n
             /\ calls[c].loaded[i].path = plugins[n].pluginPath

\* C1 witness: a second reload() has finished and a name the first one had
\* registered is gone, while another artifact is registered
C1_Witness ==
  /\ Len(hist) = 2 /\ Quiet /\ Finished(calls[1]) /\ ~calls[1].overlapped
  /\ \E n \in DOMAIN hist[1].reg : n \notin DOMAIN plugins
  /\ DOMAIN plugins # {}

\* the warnings of call k that name the path
WarnedAbout(k, path) == \E i \in 1..Len(k.warns) : k.warns[i].path = path

\* C2 (as claimed): in folder mode, whatever artifacts fail, reload() returns
\* without throwing, every artifact that did not fail is registered, and every
\* artifact that failed is warned about with its path and has no entry
C2_FailureIsolation ==
  \A c \in Calls :
    (isFolderOptions /\ Finished(calls[c]) /\ calls[c].dpc = "done"
       /\ calls[c].zpc = "done") =>
      /\ calls[c].pc = "returned"
      /\ \A i \in 1..Len(calls[c].paths) :
           \/ \E j \in 1..Len(calls[c].loaded) :
                /\ calls[c].loaded[j].path = calls[c].paths[i]
                /\ calls[c].loaded[j].name \in DOMAIN plugins
           \/ /\ WarnedAbout(calls[c], calls[c].paths[i])
              /\ \A n \in DOMAIN plugins : plugins[n].pluginPath # calls[c].paths[i]

\* C3: every registry entry is stored under its manifest's name and, when a
\* validator is configured, holds a value the validator returns true for
C3_KeysAndValidated ==
  \A n \in DOMAIN plugins :
    /\ plugins[n].manifest.f.name.s = n
    /\ options.validator => Validator(plugins[n].plugin) = "true"

\* C3 witness: between reloads, with a validator configured, one artifact is
\* registered and another was rejected by the validator
C3_Witness ==
  /\ Quiet /\ options.validator /\ DOMAIN plugins # {}
  /\ \E c \in Calls :
       /\ Finished(calls[c])
       /\ \E i \in 1..Len(calls[c].warns) :
            calls[c].warns[i].text = "Plugin validation failed for"

\* C4: in single-path mode no scanner is constructed, no sub-scan runs, the
\* extraction cache is untouched, loadSinglePlugin is called once per reload()
\* and on the configured path, and a successful load leaves exactly one entry
C4_SinglePathMode ==
  options.mode = "single" =>
    /\ fsCache = EmptyMap
    /\ Cardinality(DOMAIN plugins) <= 1
    /\ \A c \in Calls :
         /\ calls[c].scans = 0 /\ calls[c].dpc = "off" /\ calls[c].zpc = "off"
         /\ calls[c].pc # "idle" => calls[c].tried = <<options.pluginPath>>
         /\ (Finished(calls[c]) /\ calls[c].loaded # <<>>) =>
              Cardinality(DOMAIN plugins) = 1

\* C4 witness: the configured plugin is loaded, alone, next to a sibling plugin
\* directory and a sibling archive
C4_Witness ==
  /\ options.mode = "single" /\ options.pluginPath = RootJoin(P1)
  /\ Finished(calls[1]) /\ Cardinality(DOMAIN plugins) = 1
  /\ fsEnt[P2].kind = "dir" /\ fsEnt[Z1].kind = "file"

RootNotFound == Err("Error", "Plugin directory not found", RootPath)

NullishThrowAt(path) ==
  \E u \in DOMAIN moduleCache :
    /\ u.dir = path
    /\ \/ moduleCache[u].outcome = "throwNullish"
       \/ /\ moduleCache[u].outcome = "ok" /\ options.validator
          /\ Validator(PluginCode(moduleCache[u], u)) = "throwNullish"

C6_ScanRootErrors ==
  [][\A c \in Calls :
       (calls[c].pc = "scan" /\ fsRoot # "ok" /\ calls'[c] # calls[c]) =>
         /\ calls'[c].pc = "threw"
         /\ calls'[c].paths = <<>> /\ calls'[c].tried = <<>>
         /\ calls'[c].err =
              IF fsRoot = "ENOENT"
                THEN [name |-> "Error", message |-> "Plugin directory not found",
                      path |-> RootPath]
                ELSE [name |-> "Error", message |-> fsRoot, path |-> RootPath]]_vars

\* C6 witness: scan() of a missing folder rejected with root-not-found
C6_Witness ==
  \E c \in Calls :
    /\ calls[c].pc = "threw" /\ fsRoot = "ENOENT" /\ calls[c].scans = 1
    /\ calls[c].err.message = "Plugin directory not found"
    /\ calls[c].paths = <<>>

\* C7 (as claimed): in single-path mode reload() never throws
C7_SinglePathNeverThrows ==
  options.mode = "single" => \A c \in Calls : calls[c].pc # "threw"

\* C8 (as claimed): when an entry-point file loaded by one reload() has other
\* content on disk at a later reload(), the later reload() registers the
\* content that is on disk
C8_HotReloadFreshness ==
  \A i \in 1..Len(hist), j \in 1..Len(hist) :
    i < j =>
      \A a \in 1..Len(hist[i].loaded), b \in 1..Len(hist[j].loaded) :
        (/\ hist[i].loaded[a].path = hist[j].loaded[b].path
         /\ hist[i].loaded[a].disk # hist[j].loaded[b].disk) =>
          hist[j].loaded[b].code = hist[j].loaded[b].disk

\* C9 (as claimed): two reload() calls in succession, with no change of the
\* filesystem from the start of the first to the end of the second, leave the
\* same keys with the same manifests
C9_Idempotence ==
  \A i \in 1..Len(hist) - 1 :
    (/\ ~hist[i].overlapped /\ ~hist[i + 1].overlapped
     /\ hist[i].e0 = hist[i + 1].e1) =>
      hist[i].reg = hist[i + 1].reg

\* the last reload() returned, alone, and the filesystem is as it found it
ReturnedUnchanged(c) ==
  /\ calls[c].pc = "returned" /\ ~calls[c].overlapped /\ Quiet
  /\ calls[c].e0 = edits

\* find(name) returns the manifest on disk at path, with the loaded export
FindGives(l) ==
  LET r == readManifest(l.path)
  IN /\ r.ok
     /\ find(r.manifest.f.name.s) # JUndef
     /\ find(r.manifest.f.name.s).manifest = r.manifest
     /\ find(r.manifest.f.name.s).plugin.code = l.code

\* C10 (as claimed): after reload(), for every artifact that was loaded
\* (manifest valid, entry point imported, export accepted), find(manifest.name)
\* returns a LoadedPlugin with that artifact's manifest, field for field
C10_FindReturnsEveryLoaded ==
  \A c \in Calls :
    ReturnedUnchanged(c) =>
      \A i \in 1..Len(calls[c].loaded) : FindGives(calls[c].loaded[i])

\* C10 (amended): the same, for every loaded artifact that is not followed in
\* the same pass by another loaded artifact with the same manifest name
C10_FindReturnsLastLoaded ==
  \A c \in Calls :
    ReturnedUnchanged(c) =>
      \A i \in 1..Len(calls[c].loaded) :
        (\A j \in (i + 1)..Len(calls[c].loaded) :
           calls[c].loaded[j].name # calls[c].loaded[i].name) =>
          FindGives(calls[c].loaded[i])

\* C10 witness: a pass loaded two artifacts with one manifest name but other
\* manifests, and find returns the second
C10_Witness ==
  \E c \in Calls :
    /\ ReturnedUnchanged(c) /\ Len(calls[c].loaded) = 2
    /\ calls[c].loaded[1].name = calls[c].loaded[2].name
    /\ readManifest(calls[c].loaded[1].path).manifest
         # readManifest(calls[c].loaded[2].path).manifest
    /\ FindGives(calls[c].loaded[2])

\* the load of call k's current artifact succeeds at its import step: the
\* module evaluates and the validator, when configured, returns true
ImportSucceeds(k) ==
  /\ Import(k.url).outcome = "ok"
  /\ options.validator => Validator(PluginCode(Import(k.url), k.url)) = "true"

\* C11: a step of loadSinglePlugin leaves the registry as it is, except the
\* import step of an artifact whose manifest was read, whose module evaluated
\* and whose export was accepted: that step sets the entry of the manifest's
\* name to this artifact and leaves every other entry as it is
C11_AllOrNothing ==
  [][\A c \in Calls :
       (calls[c].pc = "load" /\ calls'[c] # calls[c]) =>
         IF calls[c].lpc = "import" /\ ImportSucceeds(calls[c])
           THEN /\ DOMAIN plugins' = DOMAIN plugins \cup {calls[c].man.f.name.s}
                /\ plugins'[calls[c].man.f.name.s].manifest = calls[c].man
                /\ plugins'[calls[c].man.f.name.s].pluginPath
                     = calls[c].paths[calls[c].li]
                /\ \A n \in DOMAIN plugins \ {calls[c].man.f.name.s} :
                     plugins'[n] = plugins[n]
           ELSE plugins' = plugins]_vars

\* C11 witness: a pass registered one artifact and then failed to load the
\* next, and the first is still registered
C11_Witness ==
  \E c \in Calls :
    /\ Finished(calls[c]) /\ Len(calls[c].tried) = 2 /\ Len(calls[c].loaded) = 1
    /\ calls[c].loaded[1].path = calls[c].tried[1]
    /\ WarnedAbout(calls[c], calls[c].tried[2])
    /\ \E n \in DOMAIN plugins : plugins[n].pluginPath = calls[c].tried[1]

\* every artifact of call k has a manifest and an entry module that evaluates,
\* and the validator returns false for every module the runtime holds of it
AllRejected(k) ==
  /\ options.validator /\ k.paths # <<>>
  /\ \A i \in 1..Len(k.paths) :
       /\ readManifest(k.paths[i]).ok
       /\ \E u \in DOMAIN moduleCache : u.dir = k.paths[i]
       /\ \A u \in DOMAIN moduleCache :
            u.dir = k.paths[i] =>
              /\ moduleCache[u].outcome = "ok"
              /\ Validator(PluginCode(moduleCache[u], u)) = "false"

\* the warnings printed by loadSinglePlugin in call k, in order
HostWarns(k) == SelectSeq(k.warns, LAMBDA w : w.text # "Failed to extract")

\* C12: when the validator returns false for each of the N artifacts of a
\* reload(), all with valid manifests and imports, the registry is empty and
\* the pass printed N warnings, the i-th 'Plugin validation failed for' with
\* the manifest name and the path of the i-th artifact
C12_ValidatorGating ==
  \A c \in Calls :
    (ReturnedUnchanged(c) /\ AllRejected(calls[c])) =>
      /\ plugins = EmptyMap /\ getAll = {}
      /\ Len(HostWarns(calls[c])) = Len(calls[c].paths)
      /\ \A i \in 1..Len(calls[c].paths) :
           HostWarns(calls[c])[i] =
             [text |-> "Plugin validation failed for",
              path |-> calls[c].paths[i],
              name |-> readManifest(calls[c].paths[i]).manifest.f.name.s,
              message |-> ""]

\* C12 witness: a folder pass over two artifacts, both rejected
C12_Witness ==
  \E c \in Calls :
    /\ ReturnedUnchanged(c) /\ AllRejected(calls[c]) /\ isFolderOptions
    /\ Len(calls[c].paths) = 2 /\ Len(HostWarns(calls[c])) = 2

\* C13: reload() calls that overlap are not atomic: once all are complete the
\* registry is a mix, bounded only by this: every entry was loaded by one of
\* the calls, and every artifact the call started last loaded is registered
C13_MixOfOverlappingCalls ==
  Quiet =>
    /\ \A n \in DOMAIN plugins :
         \E c \in Calls : \E i \in 1..Len(calls[c].loaded) :
           /\ calls[c].loaded[i].name = n
           /\ calls[c].loaded[i].path = plugins[n].pluginPath
    /\ \A c \in Calls :
         (started > 0 /\ calls[c].n = started) =>
           LoadedNames(calls[c]) \subseteq DOMAIN plugins

\* C13 witness: two overlapping calls are complete and the registry holds a
\* plugin, removed from disk between the two scans, that the discovery pass of
\* the call started last did not produce
C13_Witness ==
  /\ Quiet /\ calls[1].pc = "returned" /\ calls[2].pc = "returned"
  /\ calls[1].n = 1 /\ calls[2].n = 2 /\ calls[2].overlapped
  /\ fsEnt[P1].kind = "none"
  /\ \E n \in DOMAIN plugins :
       /\ plugins[n].pluginPath = RootJoin(P1)
       /\ \A i \in 1..Len(calls[2].paths) : calls[2].paths[i] # RootJoin(P1)
       /\ n \notin LoadedNames(calls[2])

\* the manifest file of p is there, parses as a JSON object, and its name,
\* version and entryPoint are strings with a character that is not whitespace
ManifestWellFormed ==
  /\ fsEnt[P1].kind = "dir" /\ fsEnt[P1].manifest.st = "json"
  /\ fsEnt[P1].manifest.json.t = "object"
  /\ "f" \in DOMAIN fsEnt[P1].manifest.json
  /\ \A p \in {"name", "version", "entryPoint"} :
       /\ fsEnt[P1].manifest.json.f[p].t = "string"
       /\ \E i \in 1..Len(fsEnt[P1].manifest.json.f[p].s) :
            fsEnt[P1].manifest.json.f[p].s[i] # " "

\* C14: readManifest returns a manifest only for a well-formed manifest file,
\* and then the parsed object itself; in every other case, and whenever it
\* fails, it throws a ManifestValidationError; loadSinglePlugin goes on to the
\* import only with that manifest and otherwise warns and registers nothing
C14_ReadManifest ==
  /\ readManifest(RootJoin(P1)).ok =>
       /\ ManifestWellFormed
       /\ readManifest(RootJoin(P1)).manifest = fsEnt[P1].manifest.json
  /\ ~ManifestWellFormed => ~readManifest(RootJoin(P1)).ok
  /\ ~readManifest(RootJoin(P1)).ok =>
       readManifest(RootJoin(P1)).error.name = "ManifestValidationError"
  /\ \A c \in Calls :
       /\ calls[c].lpc = "import" =>
            ManifestWellFormed /\ calls[c].man = fsEnt[P1].manifest.json
       /\ (Finished(calls[c]) /\ ~ManifestWellFormed) =>
            /\ calls[c].pc = "returned" /\ plugins = EmptyMap
            /\ Len(calls[c].warns) = 1
            /\ calls[c].warns[1].text = "Failed to load plugin at"
            /\ calls[c].warns[1].path = RootJoin(P1)

\* C14 witness: reload() returned after readManifest failed on a manifest whose
\* version is only whitespace
C14_Witness ==
  /\ Finished(calls[1]) /\ fsEnt[P1].manifest.st = "json"
  /\ fsEnt[P1].manifest.json.t = "object"
  /\ Prop(fsEnt[P1].manifest.json, "name") = JStr(IndexJs)
  /\ Prop(fsEnt[P1].manifest.json, "version") = JStr(<<" ">>)
  /\ calls[1].warns # <<>>
  /\ calls[1].warns[1].message = "Manifest must contain a non-empty \"version\" field"

\* C15 (as claimed): a manifest is accepted only when its meta is absent or a
\* map; with meta a scalar, null or an array, and the rest well formed,
\* readManifest fails with the ManifestValidationError about meta
C15_MetaMustBeMap ==
  LET meta == Prop(fsEnt[P1].manifest.json, "meta")
  IN /\ readManifest(RootJoin(P1)).ok => meta \in {JUndef, JMap}
     /\ (ManifestWellFormed /\ meta \notin {JUndef, JMap}) =>
          /\ ~readManifest(RootJoin(P1)).ok
          /\ readManifest(RootJoin(P1)).error
               = Err("ManifestValidationError",
                     "Manifest \"meta\" field must be an object if provided",
                     RootJoin(P1))
     /\ \A c \in Calls :
          calls[c].lpc = "import" => Prop(calls[c].man, "meta") \in {JUndef, JMap}

\* the elements of a sequence
Range(seq) == {seq[i] : i \in 1..Len(seq)}

\* C16 (as claimed): whatever the extraction cache holds, an archive without a
\* manifest at its root is not in the result of scanZipFiles or scan(), has no
\* entry in the registry, and makes no reload() throw
C16_ManifestlessArchive ==
  \A c \in Calls :
    (/\ isFolderOptions /\ calls[c].e0 = edits
     /\ fsEnt[Z1].kind = "file" /\ ~fsEnt[Z1].corrupt
     /\ fsEnt[Z1].manifest.st = "absent") =>
      /\ CacheJoin(ExtractName(Z1)) \notin Range(calls[c].zres)
      /\ CacheJoin(ExtractName(Z1)) \notin Range(calls[c].paths)
      /\ \A n \in DOMAIN plugins : plugins[n].pluginPath # CacheJoin(ExtractName(Z1))
      /\ calls[c].err.path # CacheJoin(ExtractName(Z1))

\* the regular files of the folder that scanZipFiles takes for archives
Archives == {z \in {Z1, Z2} : fsEnt[z].kind = "file"}

\* C17: with the folder and the temp area in order, an archive that cannot be
\* opened or extracted gives a warning naming it and no path; the sub-scans do
\* not reject; every other archive with a manifest and every plugin directory
\* with a manifest is in the list reload() goes through
C17_ExtractFailureIsolated ==
  \A c \in Calls :
    (/\ isFolderOptions /\ calls[c].e0 = edits /\ calls[c].pc # "idle"
     /\ fsRoot = "ok" /\ fsTmp = "ok") =>
      /\ calls[c].zpc # "rejected" /\ calls[c].dpc # "rejected"
      /\ calls[c].pc = "threw" => calls[c].err.name = "TypeError"
      /\ calls[c].zpc = "done" =>
           \A z \in Archives :
             IF fsEnt[z].corrupt
               THEN /\ \E i \in 1..Len(calls[c].warns) :
                         /\ calls[c].warns[i].text = "Failed to extract"
                         /\ calls[c].warns[i].name = z
                    /\ CacheJoin(ExtractName(z)) \notin Range(calls[c].zres)
               ELSE fsEnt[z].manifest.st = "json" =>
                      CacheJoin(ExtractName(z)) \in Range(calls[c].zres)
      /\ calls[c].pc \in {"load", "returned"} =>
           /\ Range(calls[c].zres) \subseteq Range(calls[c].paths)
           /\ \A e \in EntryNames :
                (fsEnt[e].kind = "dir" /\ fsEnt[e].manifest.st = "json") =>
                  RootJoin(e) \in Range(calls[c].paths)

\* C17 witness: the first archive read could not be opened, and the pass went
\* through the second archive and the plugin directory
C17_Witness ==
  \E c \in Calls :
    /\ calls[c].pc = "returned" /\ calls[c].e0 = edits
    /\ calls[c].zents = <<Z1, Z2>> /\ fsEnt[Z1].corrupt /\ fsEnt[Z1].kind = "file"
    /\ calls[c].paths = <<RootJoin(P1), CacheJoin(ExtractName(Z2))>>
    /\ \E i \in 1..Len(calls[c].warns) : calls[c].warns[i].name = Z1

\* (a) the immediate subdirectories of the folder with a readable manifest
PluginDirs ==
  {RootJoin(e) : e \in {x \in EntryNames :
                          /\ fsEnt[x].kind = "dir"
                          /\ fsEnt[x].manifest.st \in {"garbage", "json"}}}

\* (b) the extracted directories of the immediate regular files named *.zip
\* that could be extracted and hold a readable manifest once extracted
ExtractedDirs ==
  {CacheJoin(ExtractName(e)) :
     e \in {x \in EntryNames :
              /\ fsEnt[x].kind = "file" /\ ~fsEnt[x].corrupt
              /\ Len(x) >= 4
              /\ SubSeq(x, Len(x) - 3, Len(x)) = <<".", "z", "i", "p">>
              /\ ExtractName(x) \in DOMAIN fsCache
              /\ fsCache[ExtractName(x)].manifest.st \in {"garbage", "json"}}}

\* C18: the list scan() returned is, without repetition, the plugin
\* directories with a readable manifest and the extracted directories of the
\* archives whose extraction gave a path; only directories were probed for a
\* manifest; every path returned holds a readable manifest
C18_ScanResult ==
  \A c \in Calls :
    (/\ isFolderOptions /\ calls[c].e0 = edits /\ fsRoot = "ok" /\ fsTmp = "ok"
     /\ calls[c].pc \in {"load", "returned"}) =>
      /\ Range(calls[c].paths) = PluginDirs \cup ExtractedDirs
      /\ Len(calls[c].paths) = Cardinality(PluginDirs \cup ExtractedDirs)
      /\ \A e \in Range(calls[c].dents) : fsEnt[e].kind = "dir"
      /\ \A path \in Range(calls[c].paths) : ManifestReadable(path)

\* C18 witness: a folder with a plain file, a directory named like an archive
\* and an archive; scan() returned the directory and the extracted archive
C18_Witness ==
  \E c \in Calls :
    /\ calls[c].pc = "returned" /\ calls[c].e0 = edits
    /\ fsEnt[P1] = PlainFile /\ fsEnt[Z1].kind = "dir" /\ fsEnt[Z2].kind = "file"
    /\ calls[c].paths = <<RootJoin(Z1), CacheJoin(ExtractName(Z2))>>

\* the position in call k's loaded list of the last artifact named n
LastLoaded(k, n) ==
  CHOOSE i \in 1..Len(k.loaded) :
    /\ k.loaded[i].name = n
    /\ \A j \in (i + 1)..Len(k.loaded) : k.loaded[j].name # n

\* C19: after a reload() the registry has one entry per distinct manifest name
\* among the artifacts loaded, and the entry of a name is the artifact of that
\* name loaded last: its path, its manifest and its export
C19_LastDuplicateWins ==
  \A c \in Calls :
    ReturnedUnchanged(c) =>
      /\ Cardinality(DOMAIN plugins) = Cardinality(LoadedNames(calls[c]))
      /\ \A n \in LoadedNames(calls[c]) :
           /\ n \in DOMAIN plugins
           /\ plugins[n].pluginPath
                = calls[c].loaded[LastLoaded(calls[c], n)].path
           /\ plugins[n].manifest = readManifest(plugins[n].pluginPath).manifest
           /\ plugins[n].plugin.code
                = calls[c].loaded[LastLoaded(calls[c], n)].code

\* C19 witness: two artifacts, a directory and an archive, with one manifest
\* name were loaded; the registry has one entry, the archive's
C19_Witness ==
  \E c \in Calls :
    /\ ReturnedUnchanged(c) /\ Len(calls[c].loaded) = 2
    /\ calls[c].loaded[1].name = calls[c].loaded[2].name
    /\ calls[c].loaded[1].path.base = "root"
    /\ calls[c].loaded[2].path.base = "cache"
    /\ Cardinality(DOMAIN plugins) = 1
    /\ \A n \in DOMAIN plugins : plugins[n].pluginPath = calls[c].loaded[2].path

\* the names find is asked for: those of the manifests, and one of no manifest
QueryNames == {NameA, NameB, <<"c">>}

\* C20: before the first reload() getAll() is empty and find(n) is undefined
\* for every name; after a reload(), find(n) is undefined for every name that
\* is not the manifest name of a plugin that reload() loaded
C20_AbsentNames ==
  /\ started = 0 =>
       getAll = {} /\ \A n \in QueryNames : find(n) = JUndef
  /\ \A c \in Calls :
       (Finished(calls[c]) /\ ~calls[c].overlapped /\ Quiet) =>
         \A n \in QueryNames \ LoadedNames(calls[c]) : find(n) = JUndef

\* C20 witness: a plugin registered by one reload() and then removed is
\* undefined after the next reload(), while the plugin that stayed is found
C20_Witness ==
  /\ Quiet /\ Len(hist) = 2 /\ Finished(calls[1])
  /\ NameB \in DOMAIN hist[1].reg
  /\ LoadedNames(calls[1]) = {NameA}
  /\ find(NameB) = JUndef /\ find(NameA) # JUndef

\* C21: the list a caller holds changes only when the caller changes it or
\* takes a new one: no step of reload() changes its elements; and a change
\* the caller makes to the list leaves the registry, and what getAll() would
\* return, as they are
C21_GetAllSnapshot ==
  [][/\ (held' = held /\ held.ref # "none") => HeldItems' = HeldItems
     /\ (held.ref # "none" /\ HeldItems' # HeldItems) =>
          plugins' = plugins /\ getAll' = getAll]_vars

\* C21 witness: the caller holds a list with a plugin and an element of its
\* own, taken before a reload() that has returned with other plugins
C21_Witness ==
  /\ held.ref = "copy" /\ ForeignPlugin \in held.items
  /\ Len(hist) = 2 /\ Quiet
  /\ \E x \in held.items : x # ForeignPlugin /\ x \notin getAll
  /\ getAll # {}

\* C22 (as claimed): every mkdir of scanZipFiles is of a directory directly
\* under the platform temp area whose name contains 'moduul-cache', with the
\* recursive option
C22_CacheRootName ==
  \A c \in Calls : \A i \in 1..Len(calls[c].mk) :
    /\ calls[c].mk[i].dir.base = "tmp"
    /\ calls[c].mk[i].recursive
    /\ IndexOf(calls[c].mk[i].dir.name,
               <<"m", "o", "d", "u", "u", "l", "-", "c", "a", "c", "h", "e">>) # 0

\* C23 (as claimed): the token of a load request is greater than the token of
\* every earlier load of the same entry-point path that the runtime holds a
\* module for, so the request never resolves to a module already held
C23_DistinctLoadToken ==
  \A c \in Calls :
    calls[c].lpc = "import" =>
      /\ calls[c].url \notin DOMAIN moduleCache
      /\ \A u \in DOMAIN moduleCache :
           (u.dir = calls[c].url.dir /\ u.file = calls[c].url.file) =>
             u.t < calls[c].url.t

\* C24 (as claimed): each extraction goes to the cache directory joined with
\* the archive's file name without its last four characters, '.zip'
C24_ExtractionDirectory ==
  \A c \in Calls : \A i \in 1..Len(calls[c].ex) :
    /\ EndsWith(calls[c].ex[i].name, <<".", "z", "i", "p">>)
    /\ calls[c].ex[i].dir
         = [base |-> "cache",
            name |-> SubSeq(calls[c].ex[i].name, 1, Len(calls[c].ex[i].name) - 4)]

\* the archive file names of the folder, in readdir order
ZipFileNames ==
  SelectSeq(fsOrder, LAMBDA e : /\ fsEnt[e].kind = "file"
                                /\ EndsWith(e, <<".", "z", "i", "p">>))

\* C25: a scanZipFiles call that returned has made one extraction for each
\* '.zip' file of the folder, in readdir order, whatever the cache held; and
\* where the archive could be opened, the files it holds are in its extraction
\* directory with the archive's content
C25_ExtractEveryScan ==
  \A c \in Calls :
    (/\ calls[c].zpc = "done" /\ calls[c].e0 = edits
     /\ fsRoot = "ok" /\ fsTmp = "ok") =>
      /\ Len(calls[c].ex) = Len(ZipFileNames)
      /\ \A i \in 1..Len(ZipFileNames) : calls[c].ex[i].name = ZipFileNames[i]
      /\ \A z \in Range(ZipFileNames) :
           ~fsEnt[z].corrupt =>
             /\ ExtractName(z) \in DOMAIN fsCache
             /\ fsEnt[z].manifest.st # "absent" =>
                  fsCache[ExtractName(z)].manifest = fsEnt[z].manifest
             /\ fsEnt[z].index # "absent" =>
                  fsCache[ExtractName(z)].index = fsEnt[z].index

\* C25 witness: the second reload() of a host extracted both archives again
C25_Witness ==
  \E c \in Calls :
    /\ calls[c].n = 2 /\ calls[c].pc = "returned" /\ calls[c].e0 = edits
    /\ Len(calls[c].ex) = 2 /\ calls[c].ex[1].name # calls[c].ex[2].name
    /\ \A i \in 1..2 : ~fsEnt[calls[c].ex[i].name].corrupt

\* C26: in every scanZipFiles call that read the folder, the one mkdir of the
\* cache directory comes before any extraction, is made with recursive: true,
\* is made when the folder holds no archive too, and does not fail because the
\* directory is already there
C26_CacheRootEnsured ==
  \A c \in Calls :
    /\ Len(calls[c].ex) > 0 =>
         /\ Len(calls[c].mk) = 1
         /\ CacheRootKey \in DOMAIN fsCache
    /\ calls[c].zpc = "done" =>
         /\ calls[c].mk = <<[dir |-> CacheDir, recursive |-> TRUE]>>
         /\ CacheRootKey \in DOMAIN fsCache
    /\ (calls[c].zpc = "rejected" /\ Len(calls[c].mk) = 1) => fsTmp # "ok"

\* C26 witness: the second reload() of a host, over a folder without archives,
\* made its mkdir on the directory the first one created, and returned
C26_Witness ==
  \E c \in Calls :
    /\ calls[c].n = 2 /\ calls[c].pc = "returned"
    /\ calls[c].zpc = "done" /\ calls[c].zents = <<>> /\ calls[c].ex = <<>>
    /\ Len(calls[c].mk) = 1 /\ CacheRootKey \in DOMAIN fsCache

\* a required field offends when it is not a string with a character that is
\* not whitespace
Offends(v) == v.t # "string" \/ \A i \in 1..Len(v.s) : v.s[i] = " "

\* the property p of the parsed manifest file of P1
FileField(p) ==
  IF "f" \in DOMAIN fsEnt[P1].manifest.json
    THEN fsEnt[P1].manifest.json.f[p] ELSE JUndef

\* the message validation raises for what the manifest file of P1 parses to
RaisedForFile == validateManifest(fsEnt[P1].manifest.json)

\* C27: for a manifest file that parses, the error of validateManifest names the
\* first of root, name, version, entryPoint that offends, whatever the later
\* fields are; it names meta only when those four are sound and meta is there
\* and not a map; and it is the error reload() warns with
C27_ValidationOrder ==
  (fsEnt[P1].kind = "dir" /\ fsEnt[P1].manifest.st = "json") =>
    /\ IF fsEnt[P1].manifest.json.t \notin {"object", "array"}
         THEN RaisedForFile = "Manifest must be a JSON object"
       ELSE IF Offends(FileField("name"))
         THEN RaisedForFile = "Manifest must contain a non-empty \"name\" field"
       ELSE IF Offends(FileField("version"))
         THEN RaisedForFile = "Manifest must contain a non-empty \"version\" field"
       ELSE IF Offends(FileField("entryPoint"))
         THEN RaisedForFile = "Manifest must contain a non-empty \"entryPoint\" field"
       ELSE /\ RaisedForFile
                 \in {"ok", "Manifest \"meta\" field must be an object if provided"}
            /\ RaisedForFile # "ok" => FileField("meta").t \notin {"undefined", "object"}
    /\ \A c \in Calls :
         (Finished(calls[c]) /\ RaisedForFile # "ok") =>
           /\ Len(calls[c].warns) = 1
           /\ calls[c].warns[1].message = RaisedForFile

\* C27 witness: reload() warned about name for a manifest whose name, version,
\* entryPoint and meta all offend
C27_Witness ==
  /\ Finished(calls[1]) /\ fsEnt[P1].manifest.st = "json"
  /\ fsEnt[P1].manifest.json.t = "object"
  /\ FileField("name") = JNull /\ FileField("version") = JUndef
  /\ FileField("entryPoint") = JStr(<<>>) /\ FileField("meta") = JNum
  /\ calls[1].warns # <<>>
  /\ calls[1].warns[1].message = "Manifest must contain a non-empty \"name\" field"

\* whether the module has a default export, whatever its value
DeclaresDefault(code) == code # "B"

\* C28 (as claimed): the instance registered is the default export when the
\* module has one and the module otherwise, and it is a value the configured
\* validator accepts
C28_RegisteredInstance ==
  \A n \in DOMAIN plugins :
    /\ plugins[n].plugin.part
         = IF DeclaresDefault(plugins[n].plugin.code) THEN "default" ELSE "module"
    /\ options.validator => Validator(plugins[n].plugin) = "true"

\* the manifest at path is valid, and its entry-point file is missing or throws
\* when evaluated, and the runtime holds no module loaded from it earlier
EntryFails(path) ==
  /\ readManifest(path).ok
  /\ LET f == EntryFile(FileUrl(path, readManifest(path).manifest, 0))
     IN f = "absent" \/ EvalOutcome(f) # "ok"
  /\ \A u \in DOMAIN moduleCache : u.dir = path => moduleCache[u].outcome # "ok"

\* C29 (as claimed): a plugin directory with a valid manifest whose entry point
\* is missing or fails to import is returned by scan(), and reload() finishes
\* having warned about it with its path and the message of the import's
\* failure, and with no registry entry for it
C29_ImportFailureSkipped ==
  \A c \in Calls :
    (Finished(calls[c]) /\ calls[c].e0 = edits /\ fsRoot = "ok"
       /\ ~calls[c].overlapped) =>
      /\ isFolderOptions =>
           \A e \in {P1, P2} :
             (fsEnt[e].kind = "dir" /\ EntryFails(RootJoin(e))) =>
               RootJoin(e) \in Range(calls[c].paths)
      /\ \A i \in 1..Len(calls[c].paths) :
           EntryFails(calls[c].paths[i]) =>
             /\ \E j \in 1..Len(calls[c].warns) :
                  /\ calls[c].warns[j].text = "Failed to load plugin at"
                  /\ calls[c].warns[j].path = calls[c].paths[i]
                  /\ calls[c].warns[j].message \in {"Cannot find module", "module threw"}
             /\ \A n \in DOMAIN plugins : plugins[n].pluginPath # calls[c].paths[i]

\* the import call c awaits never returns
Hung(c) ==
  /\ calls[c].pc = "load" /\ calls[c].lpc = "import"
  /\ Import(calls[c].url).outcome = "hang"

\* no entry point of the folder hangs
AllImportsReturn == \A e \in EntryNames : fsEnt[e].index # "H"

\* C30 (as claimed): when no import hangs every reload() under way finishes; a
\* reload() that finished has given each path of its discovery to
\* loadSinglePlugin exactly once; and a reload() whose import hangs stays there
\* for ever and loads nothing that comes later in its list
C30_ReloadCompletes ==
  /\ \A c \in Calls :
       (AllImportsReturn /\ Busy(calls[c])) ~> Finished(calls[c])
  /\ [](\A c \in Calls : Finished(calls[c]) => calls[c].tried = calls[c].paths)
  /\ \A c \in Calls :
       [](Hung(c) =>
            [](/\ Hung(c)
               /\ \A j \in 1..Len(calls[c].loaded) :
                    \E i \in 1..(calls[c].li - 1) :
                      calls[c].loaded[j].path = calls[c].paths[i]))

\* C31: when a folder-mode reload() that overlapped no other has thrown the
\* error of its scan (folder missing, or another filesystem error), the
\* registry is empty, whatever the reload before it had registered
C31_FailedDiscoveryEmpties ==
  \A c \in Calls :
    (/\ isFolderOptions /\ ~calls[c].overlapped /\ calls[c].n = started
     /\ calls[c].pc = "threw" /\ calls[c].err.name = "Error"
     /\ calls[c].tried = <<>>) =>
      plugins = EmptyMap

\* C31 witness: the first reload() registered plugins, the folder was then
\* removed, and the second reload() threw root-not-found
C31_Witness ==
  /\ Len(hist) = 2 /\ hist[1].pc = "returned" /\ DOMAIN hist[1].reg # {}
  /\ isFolderOptions /\ fsRoot = "ENOENT"
  /\ \E c \in Calls :
       /\ calls[c].n = 2 /\ calls[c].pc = "threw"
       /\ calls[c].err.message = "Plugin directory not found"
  /\ plugins = EmptyMap

\* C32: with reload() calls that do not overlap, the step that starts a
\* reload() leaves the registry empty, and every step from then on keeps every
\* key the registry has
C32_ClearedThenGrows ==
  [][/\ started' # started => plugins' = EmptyMap
     /\ started' = started => DOMAIN plugins \subseteq DOMAIN plugins']_vars

\* C32 witness: in the middle of the second reload(), at the import of a
\* sound plugin the first reload() had registered, find of its name gives
\* undefined
C32_Witness ==
  \E c \in Calls :
    /\ calls[c].n = 2 /\ calls[c].pc = "load" /\ calls[c].lpc = "import"
    /\ Len(hist) = 1 /\ calls[c].man.f.name.s \in DOMAIN hist[1].reg
    /\ find(calls[c].man.f.name.s) = JUndef
    /\ Import(calls[c].url).outcome = "ok"
    /\ ValidatorVerdict(PluginCode(Import(calls[c].url), calls[c].url)) = "true"

\* the list a scan() made now, alone, returns: the plugin directories with a
\* readable manifest, then the extracted directories with a readable manifest
\* of the archives, both in readdir order
SoloPaths ==
  LET dirs == SelectSeq(fsOrder, LAMBDA e : RootJoin(e) \in PluginDirs)
      zips == SelectSeq(fsOrder, LAMBDA e : CacheJoin(ExtractName(e)) \in ExtractedDirs
                                             /\ fsEnt[e].kind = "file")
  IN [i \in 1..Len(dirs) |-> RootJoin(dirs[i])]
       \o [i \in 1..Len(zips) |-> CacheJoin(ExtractName(zips[i]))]

\* what loading the path does, from the files as they are: "skip" (a warning),
\* "stop" (reload() throws) or "set"
SoloOutcome(path) ==
  IF ~readManifest(path).ok THEN "skip"
  ELSE LET url == FileUrl(path, readManifest(path).manifest, 0)
           f == EntryFile(url)
           v == Validator([code |-> f])
       IN IF f = "absent" \/ EvalOutcome(f) = "throwError" THEN "skip"
          ELSE IF EvalOutcome(f) = "throwNullish" THEN "stop"
          ELSE IF options.validator /\ v \in {"false", "throwError"} THEN "skip"
          ELSE IF options.validator /\ v = "throwNullish" THEN "stop"
          ELSE "set"

\* name -> manifest after a reload() made alone over the list, from its i-th
\* path on, reg being what the paths before gave
RECURSIVE SoloRegistry(_, _, _)
SoloRegistry(paths, i, reg) ==
  IF i > Len(paths) \/ SoloOutcome(paths[i]) = "stop" THEN reg
  ELSE IF SoloOutcome(paths[i]) = "skip" THEN SoloRegistry(paths, i + 1, reg)
  ELSE LET man == readManifest(paths[i]).manifest
       IN SoloRegistry(paths, i + 1,
                       [n \in DOMAIN reg \cup {man.f.name.s} |->
                          IF n = man.f.name.s THEN man ELSE reg[n]])

\* C33: over a folder that does not change, once every reload() started is
\* complete, overlapping or not and however their steps interleaved, the
\* registry holds the names, each with the manifest, that one reload() made
\* alone gives
C33_OverlapSameAsSolo ==
  (Quiet /\ started > 0) =>
    [n \in DOMAIN plugins |-> plugins[n].manifest]
      = SoloRegistry(SoloPaths, 1, [n \in {} |-> JUndef])

\* C33 witness: two reload() calls that overlapped are complete, both stored
\* wrappers, and two names are registered
C33_Witness ==
  /\ Quiet /\ calls[1].n = 1 /\ calls[2].n = 2
  /\ calls[1].overlapped /\ calls[2].overlapped
  /\ calls[1].pc = "returned" /\ calls[2].pc = "returned"
  /\ Len(calls[1].loaded) >= 2 /\ Len(calls[2].loaded) >= 2
  /\ Cardinality(DOMAIN plugins) = 2

\* C34: a reload() gives its paths to loadSinglePlugin one at a time in the
\* order of the list, each only after the one before was stored or warned
\* about; in the list every plugin directory comes before every extracted
\* directory; so when a reload() that returned loaded a directory and an
\* archive under one name, the entry of that name is the archive's
C34_SequentialDirsFirst ==
  \A c \in Calls :
    /\ calls[c].tried = SubSeq(calls[c].paths, 1, Len(calls[c].tried))
    /\ calls[c].pc = "load" =>
         /\ Len(calls[c].tried) = calls[c].li
         /\ \A i \in 1..(calls[c].li - 1) :
              \/ \E j \in 1..Len(calls[c].loaded) :
                   calls[c].loaded[j].path = calls[c].paths[i]
              \/ WarnedAbout(calls[c], calls[c].paths[i])
         /\ \A j \in 1..Len(calls[c].loaded) :
              \E i \in 1..(calls[c].li - 1) : calls[c].loaded[j].path = calls[c].paths[i]
    /\ \A i \in 1..Len(calls[c].paths), j \in 1..Len(calls[c].paths) :
         (calls[c].paths[i].base = "cache" /\ calls[c].paths[j].base = "root") => j < i
    /\ ReturnedUnchanged(c) =>
         \A a \in 1..Len(calls[c].loaded), b \in 1..Len(calls[c].loaded) :
           (/\ calls[c].loaded[a].name = calls[c].loaded[b].name
            /\ calls[c].loaded[a].path.base = "root"
            /\ calls[c].loaded[b].path.base = "cache") =>
             plugins[calls[c].loaded[a].name].pluginPath = calls[c].loaded[b].path

\* C34 witness: readdir lists the archive before the directory, both hold a
\* plugin of one name, and after reload() the entry is the archive's
C34_Witness ==
  \E c \in Calls :
    /\ ReturnedUnchanged(c) /\ fsOrder = <<Z1, P2, P1>>
    /\ \E a \in 1..Len(calls[c].loaded), b \in 1..Len(calls[c].loaded) :
         /\ calls[c].loaded[a].path = RootJoin(P1)
         /\ calls[c].loaded[b].path = CacheJoin(ExtractName(Z1))
         /\ calls[c].loaded[a].name = calls[c].loaded[b].name
         /\ plugins[calls[c].loaded[a].name].pluginPath = CacheJoin(ExtractName(Z1))

\* modules were imported from the entry point at path, and the validator
\* throws for what each of them exports
ValidatorThrowsAt(path) ==
  /\ options.validator
  /\ \E u \in DOMAIN moduleCache : u.dir = path /\ moduleCache[u].outcome = "ok"
  /\ \A u \in DOMAIN moduleCache :
       (u.dir = path /\ moduleCache[u].outcome = "ok") =>
         Validator(PluginCode(moduleCache[u], u)) \in {"throwError", "throwNullish"}

\* C35 (as claimed): in a reload() the validator is called at most once per
\* artifact, and only for artifacts whose manifest was read and whose import
\* succeeded; when it throws, reload() still returns, having warned about the
\* artifact, stored nothing for it, and gone through the rest of its list
C35_ValidatorCalls ==
  \A c \in Calls :
    /\ \A i \in 1..Len(calls[c].vcalls), j \in 1..Len(calls[c].vcalls) :
         calls[c].vcalls[i] = calls[c].vcalls[j] => i = j
    /\ \A i \in 1..Len(calls[c].vcalls) :
         /\ calls[c].vcalls[i] \in Range(calls[c].tried)
         /\ \E u \in DOMAIN moduleCache :
              u.dir = calls[c].vcalls[i] /\ moduleCache[u].outcome = "ok"
         /\ calls[c].e0 = edits => readManifest(calls[c].vcalls[i]).ok
    /\ (Finished(calls[c]) /\ calls[c].e0 = edits /\ ~calls[c].overlapped) =>
         \A i \in 1..Len(calls[c].tried) :
           ValidatorThrowsAt(calls[c].tried[i]) =>
             /\ calls[c].pc = "returned"
             /\ calls[c].tried = calls[c].paths
             /\ \E j \in 1..Len(calls[c].warns) :
                  /\ calls[c].warns[j].text = "Failed to load plugin at"
                  /\ calls[c].warns[j].path = calls[c].tried[i]
             /\ \A n \in DOMAIN plugins : plugins[n].pluginPath # calls[c].tried[i]

\* C36 (as claimed): a reload() throws 'Plugin directory not found' only when
\* the plugin folder itself is missing
C36_RootNotFoundOnlyForRoot ==
  \A c \in Calls :
    (/\ calls[c].pc = "threw" /\ calls[c].e0 = edits
     /\ calls[c].err.message = "Plugin directory not found") =>
      fsRoot = "ENOENT"

\* C37 (as claimed): in a scan the extractions of two archives with different
\* file names go to different directories of the cache, and after the scan the
\* directory of each archive that could be opened holds that archive's manifest
C37_DistinctExtractionDirs ==
  \A c \in Calls :
    /\ \A i \in 1..Len(calls[c].ex), j \in 1..Len(calls[c].ex) :
         calls[c].ex[i].name # calls[c].ex[j].name =>
           calls[c].ex[i].dir # calls[c].ex[j].dir
    /\ (calls[c].zpc = "done" /\ calls[c].e0 = edits) =>
         \A i \in 1..Len(calls[c].ex) :
           LET zip == fsEnt[calls[c].ex[i].name]
           IN (~zip.corrupt /\ zip.manifest.st # "absent") =>
                NodeAt(calls[c].ex[i].dir).manifest = zip.manifest

\* C38: no wrapper of the registry holds undefined as its instance, getAll()
\* has one element for each key of the registry, and find(n) gives a plugin
\* exactly for the names n that are keys
C38_FiltersHideNothing ==
  /\ \A n \in DOMAIN plugins : plugins[n].plugin.code # "undefined"
  /\ Cardinality(getAll) = Cardinality(DOMAIN plugins)
  /\ \A n \in DOMAIN plugins :
       \E l \in getAll : l.manifest = plugins[n].manifest /\ l.plugin = plugins[n].plugin
  /\ \A n \in QueryNames : (find(n) # JUndef) <=> (n \in DOMAIN plugins)

\* C38 witness: the registry holds two plugins, one of them from a module
\* without default export, and getAll() and find give both
C38_Witness ==
  /\ Cardinality(DOMAIN plugins) = 2 /\ Cardinality(getAll) = 2
  /\ \E n \in DOMAIN plugins :
       /\ plugins[n].plugin.part = "module"
       /\ find(n) # JUndef /\ find(n).plugin = plugins[n].plugin

====
